---- MODULE Spec2Model ----
(***************************************************************************)
(* Agent orchestration core of the data-analyst backend:                   *)
(*   app/services/coding_agent_service.py  (agent loop, history compressor) *)
(*   app/api/routes/coding_agent.py        (query endpoint)                 *)
(*   app/services/session_manager.py       (Session Store client)           *)
(*   app/utils/tools.py, app/utils/code_executor.py (tool dispatcher)       *)
(*                                                                         *)
(* A transcript is a sequence of entries.  An entry is a record            *)
(*   role  "user" | "assistant" | "tool"                                   *)
(*   type  the value of a top-level "type" key ("none": the key is absent; *)
(*         chat-completions entries never carry it)                        *)
(*   tcs   the ids of the tool calls of an assistant turn, in model order  *)
(*   cid   the tool_call_id of a tool result                               *)
(*   meta  TRUE iff the entry carries the "_metadata" key                  *)
(*   size  len(json.dumps(entry)) of the entry without "_" keys, in units  *)
(*   syn   TRUE for the two entries written by compress_messages           *)
(*   text  TRUE iff the "content" of the entry is a non-empty string        *)
(*   res   what the content of a tool result holds: "ok" (results, no       *)
(*         errors), "errors" (a non-empty errors list), "error" (the error  *)
(*         key of the dispatcher); "-" for the other entries                *)
(*   by    the number of the request that appended the entry (bookkeeping,  *)
(*         not a key of the dict)                                           *)
(* Python list indices are 0-based: the entry at Python index i is m[i+1]. *)
(***************************************************************************)
EXTENDS Integers, Sequences, FiniteSets, TLC

VARIABLES store, req, nreq, granted, toolIn, toolOut, imgIn, imgOut, cmpArgs, cmpRet,
          ns, execOut, delOut

vars == <<store, req, nreq, granted, toolIn, toolOut, imgIn, imgOut, cmpArgs, cmpRet, ns, execOut, delOut>>

\* ---- bounds of the model ----
\* the largest max_steps a request asks for, and the sum of max_steps over
\* the requests of one behaviour
MaxSteps == 3
MaxTotalSteps == 3

\* ---- program constants ----
TOKEN_LIMIT == 60000
COMPRESS_THRESHOLD_NUM == 7
COMPRESS_THRESHOLD_DEN == 10
\* session_manager.SESSION_EXPIRY, in seconds
SESSION_EXPIRY == 86400

Slots == {1, 2}
Sessions == {"s1"}
\* serialized lengths of a tool result: short and long
Sizes == {1, 2}
\* how many tool calls one model response lists
ToolCallCounts == {0, 1, 2}
\* total_tokens values a model call may report: the trigger boundary and above it
UsageValues == {42000, 42001}

NoId == <<0, 0, 0>>

Min(S) == CHOOSE x \in S : \A y \in S : x <= y

\* ---- entries -----------------------------------------------------------
UserTurn(sz, by) ==
  [role |-> "user", type |-> "none", tcs |-> <<>>, cid |-> NoId,
   meta |-> FALSE, size |-> sz, syn |-> FALSE, by |-> by, text |-> TRUE, res |-> "-"]

\* response_message.model_dump(): unless a response says otherwise, the
\* content is empty in a turn that lists tool calls and a text in one that
\* lists none
AssistantTurn(ids, sz, by) ==
  [role |-> "assistant", type |-> "none", tcs |-> ids, cid |-> NoId,
   meta |-> FALSE, size |-> sz, syn |-> FALSE, by |-> by, text |-> ids = <<>>,
   res |-> "-"]

\* result_msg of the loop: "_metadata" is always set
ToolResult(id, sz) ==
  [role |-> "tool", type |-> "none", tcs |-> <<>>, cid |-> id,
   meta |-> TRUE, size |-> sz, syn |-> FALSE, by |-> id[1], text |-> TRUE, res |-> "ok"]

\* ---- clean_messages_for_llm ---------------------------------------------
CleanMessagesForLlm_Keep(messages) == messages

CleanMessagesForLlm(messages) ==
  [i \in DOMAIN messages |-> [messages[i] EXCEPT !.meta = FALSE]]

\* ---- get_compress_message_index -----------------------------------------
RECURSIVE CurrChars(_, _)
CurrChars(messages, n) ==
  IF n = 0 THEN 0 ELSE CurrChars(messages, n - 1) + messages[n].size

\* get_compress_message_index that counts the entry reaching the target in
GetCompressMessageIndex_CountReached(messages) ==
  LET total_chars == CurrChars(messages, Len(messages))
      reached == {index \in 0..(Len(messages) - 1) :
                    CurrChars(messages, index + 1) * COMPRESS_THRESHOLD_DEN
                      >= total_chars * COMPRESS_THRESHOLD_NUM}
  IN  IF reached = {} THEN Len(messages) ELSE Min(reached) + 1

GetCompressMessageIndex(messages) ==
  LET total_chars == CurrChars(messages, Len(messages))
      reached == {index \in 0..(Len(messages) - 1) :
                    CurrChars(messages, index + 1) * COMPRESS_THRESHOLD_DEN
                      >= total_chars * COMPRESS_THRESHOLD_NUM}
  IN  IF reached = {} THEN Len(messages) ELSE Min(reached)

\* ---- get_first_user_message_index ---------------------------------------
GetFirstUserMessageIndex(messages) ==
  LET users == {index \in 0..(Len(messages) - 1) : messages[index + 1].role = "user"}
  IN  IF users = {} THEN 0 ELSE Min(users)

\* messages[k:] of Python
From(messages, k) ==
  IF k >= Len(messages) THEN <<>> ELSE SubSeq(messages, k + 1, Len(messages))

\* messages[:k] of Python
Upto(messages, k) ==
  IF k >= Len(messages) THEN messages ELSE SubSeq(messages, 1, k)

\* ---- maybe_compress_messages: compress_index after line 252 (the advance
\* ---- to the first user turn), or -1 when the function has returned before
AdvancedIndex(messages, usage) ==
  IF usage * COMPRESS_THRESHOLD_DEN <= TOKEN_LIMIT * COMPRESS_THRESHOLD_NUM THEN -1
  ELSE LET c0 == GetCompressMessageIndex(messages)
       IN  IF c0 >= Len(messages) THEN -1
           ELSE LET c1 == c0 + GetFirstUserMessageIndex(From(messages, c0))
                IN  IF c1 <= 0 THEN -1 ELSE c1

\* maybe_compress_messages that triggers at the boundary value as well
CompressIndex_StrictTrigger(messages, usage) ==
  IF usage * COMPRESS_THRESHOLD_DEN < TOKEN_LIMIT * COMPRESS_THRESHOLD_NUM THEN -1
  ELSE LET c0 == GetCompressMessageIndex(messages)
       IN  IF c0 >= Len(messages) THEN -1
           ELSE LET c1 == c0 + GetFirstUserMessageIndex(From(messages, c0))
                IN  IF c1 <= 0 THEN -1
                    ELSE IF messages[c1].type = "function_call" THEN c1 + 1 ELSE c1

\* ---- maybe_compress_messages: the final compress_index, or -1 when the
\* ---- function returns its argument without calling compress_messages
CompressIndex(messages, usage) ==
  IF usage * COMPRESS_THRESHOLD_DEN <= TOKEN_LIMIT * COMPRESS_THRESHOLD_NUM THEN -1
  ELSE LET c0 == GetCompressMessageIndex(messages)
       IN  IF c0 >= Len(messages) THEN -1
           ELSE LET c1 == c0 + GetFirstUserMessageIndex(From(messages, c0))
                IN  IF c1 <= 0 THEN -1
                    ELSE IF messages[c1].type = "function_call" THEN c1 + 1 ELSE c1

\* ---- compress_messages: the two entries that replace the compressed prefix
CompressMessages(snap, by) ==
  << [UserTurn(snap, by) EXCEPT !.syn = TRUE],
     [AssistantTurn(<<>>, 1, by) EXCEPT !.syn = TRUE] >>

\* maybe_compress_messages that keeps messages[compress_index + 1:]
MaybeCompressMessages_DropsSplitEntry(messages, usage, snap, by) ==
  LET k == CompressIndex(messages, usage)
  IN  IF k = -1 THEN messages ELSE CompressMessages(snap, by) \o From(messages, k + 1)

MaybeCompressMessages(messages, usage, snap, by) ==
  LET k == CompressIndex(messages, usage)
  IN  IF k = -1 THEN messages ELSE CompressMessages(snap, by) \o From(messages, k)

\* the arguments and the outcome of one call of maybe_compress_messages:
\* calls counts the summarisation calls, sent is what compress_messages got
NoCmpArgs == [messages |-> <<>>, usage |-> 0]
NoCmpRet == [done |-> FALSE, calls |-> 0, sent |-> <<>>, ret |-> <<>>]


\* ---- code_executor.execute_code: the RPC to the executor service --------
\* exec is what the executor service does with the request:
\*   "ok"       200, errors empty         "error"  200, errors non-empty
\*   "timeout"  httpx.TimeoutException    "http"   httpx.HTTPError (4xx/5xx, unreachable)
\*   "other"    any other exception
ExecOutcomes == {"ok", "error", "timeout", "http", "other"}

ExecuteCode(exec) ==
  [raised |-> FALSE, keys |-> {"results", "errors"}, errs |-> exec # "ok"]

\* ---- tools.execute_code_tool ---------------------------------------------
ExecuteCodeTool(exec) ==
  LET execution == ExecuteCode(exec)
  IN  [raised |-> FALSE, keys |-> {"results", "errors"}, errs |-> execution.errs,
       msg |-> "none", invoked |-> TRUE]

\* ---- tools.execute_tool --------------------------------------------------
\* The registry the query endpoint passes: {"execute_code": execute_code_tool}
Registry == {"execute_code"}
ToolNames == {"execute_code", "execute_bash", "no_such_tool"}

\* Shapes of the raw arguments:
\*   "bad_json"    a string that is not JSON
\*   "json_scalar" a JSON value that is not an object (null, 3, [1])
\*   "not_str"     a non-string, non-mapping Python value
\*   "obj_ok"      {"code": "<text>"}
\*   "obj_missing" {}                       (required key absent)
\*   "obj_extra"   {"code": "..", "x": 1}   (unknown key)
\*   "obj_sbx"     {"code": "..", "sbx": 1} (collides with the sbx keyword)
\*   "obj_type"    {"code": 123}            (value of the wrong type)
ArgShapes == {"bad_json", "json_scalar", "not_str", "obj_ok", "obj_missing",
              "obj_extra", "obj_sbx", "obj_type"}

ErrorResult(m) ==
  [raised |-> FALSE, keys |-> {"error"}, errs |-> FALSE, msg |-> m, invoked |-> FALSE]

\* execute_tool without its last handler (except Exception)
ExecuteTool_NoCatchAll(name, args, exec) ==
  IF args = "bad_json" THEN ErrorResult("parse")
  ELSE IF name \notin Registry THEN ErrorResult("no_tool")
  ELSE IF args \in {"json_scalar", "not_str", "obj_missing", "obj_extra", "obj_sbx"}
       THEN [ErrorResult("exception") EXCEPT !.raised = TRUE, !.keys = {}]
  ELSE ExecuteCodeTool(exec)

\* execute_tool without the registry test: tools_dict[name] raises KeyError
ExecuteTool_NoRegistryTest(name, args, exec) ==
  IF args = "bad_json" THEN ErrorResult("parse")
  ELSE IF name \notin Registry THEN ErrorResult("exception")
  ELSE IF args \in {"json_scalar", "not_str", "obj_missing", "obj_extra", "obj_sbx"}
       THEN ErrorResult("exception")
  ELSE ExecuteCodeTool(exec)

ExecuteTool(name, args, exec) ==
  IF args = "bad_json" THEN ErrorResult("parse")
  ELSE IF name \notin Registry THEN ErrorResult("no_tool")
  ELSE IF args \in {"json_scalar", "not_str", "obj_missing", "obj_extra", "obj_sbx"}
       THEN ErrorResult("exception")
  ELSE ExecuteCodeTool(exec)

ToolInputs == [name : ToolNames, args : ArgShapes, exec : ExecOutcomes]

NoCall == [name |-> "-", args |-> "-", exec |-> "-"]
NoOut == [raised |-> FALSE, keys |-> {}, errs |-> FALSE, msg |-> "-", invoked |-> FALSE]

\* ---- session_manager.SessionManager --------------------------------------
\* One key of the store:
\*   ttl     the remaining lifetime Redis keeps for the key, in seconds
\*   age     the time since the last successful write (bookkeeping)
\*   prev    the lifetime the key had left when it was last written, 0 when
\*           the write created it (bookkeeping)
\*   writer  the number of the request whose write the value is (bookkeeping)
NoSession ==
  [present |-> FALSE, data |-> <<>>, writer |-> 0, ttl |-> 0, age |-> 0, prev |-> 0]

\* get_messages that answers from a cache when the read fails
GetMessages_Stale(st, s, readOk) ==
  IF st[s].present THEN st[s].data ELSE <<>>

\* get_messages: [] when the key is absent or the read fails
GetMessages(st, s, readOk) ==
  IF readOk /\ st[s].present THEN st[s].data ELSE <<>>

SaveMessages_Merge(st, s, messages, writeOk, rid) ==
  IF writeOk
  THEN [st EXCEPT ![s] = [present |-> TRUE, data |-> st[s].data \o messages,
                          writer |-> rid, ttl |-> SESSION_EXPIRY, age |-> 0,
                          prev |-> st[s].ttl]]
  ELSE st

\* save_messages with SET .. NX: a stored value is never replaced
SaveMessages_NoOverwrite(st, s, messages, writeOk, rid) ==
  IF writeOk /\ ~st[s].present
  THEN [st EXCEPT ![s] = [present |-> TRUE, data |-> messages, writer |-> rid,
                          ttl |-> SESSION_EXPIRY, age |-> 0, prev |-> st[s].ttl]]
  ELSE st

\* save_messages with SET .. KEEPTTL in the place of SETEX
SaveMessages_KeepTtl(st, s, messages, writeOk, rid) ==
  IF writeOk
  THEN [st EXCEPT ![s] = [present |-> TRUE, data |-> messages, writer |-> rid,
                          ttl |-> IF st[s].present THEN st[s].ttl ELSE SESSION_EXPIRY,
                          age |-> 0, prev |-> st[s].ttl]]
  ELSE st

\* save_messages: SETEX of the whole list; FALSE (store untouched) on failure
SaveMessages(st, s, messages, writeOk, rid) ==
  IF writeOk
  THEN [st EXCEPT ![s] = [present |-> TRUE, data |-> messages, writer |-> rid,
                          ttl |-> SESSION_EXPIRY, age |-> 0, prev |-> st[s].ttl]]
  ELSE st

\* get_session_ttl: None when the key is absent or the TTL command fails
NoTtl == -1

GetSessionTtl(st, s, ttlOk) ==
  IF ttlOk /\ st[s].present THEN st[s].ttl ELSE NoTtl


\* ---- image_processor ------------------------------------------------------
\* A text (an answer, a line of tool output) is a sequence of tokens: "IMAGE:"
\* is the marker prefix, " " is whitespace, a path token is the text of a
\* path.  A path is a text as well (the rest of a marker line).
ImagePaths == {"outputs/x.png", "outputs/y.jpg"}
Tokens == {"IMAGE:", " "} \cup ImagePaths

\* str.strip()
RECURSIVE LStrip(_)
LStrip(text) ==
  IF text # <<>> /\ Head(text) = " " THEN LStrip(Tail(text)) ELSE text

RECURSIVE RStrip(_)
RStrip(text) ==
  IF text # <<>> /\ text[Len(text)] = " "
  THEN RStrip(SubSeq(text, 1, Len(text) - 1)) ELSE text

Strip(text) == RStrip(LStrip(text))

StartsWith(text, prefix) ==
  Len(text) >= Len(prefix) /\ SubSeq(text, 1, Len(prefix)) = prefix

\* str.replace(old, ""): one pass from the left over non-overlapping occurrences
RECURSIVE Remove(_, _)
Remove(text, old) ==
  IF text = <<>> \/ old = <<>> THEN text
  ELSE IF StartsWith(text, old)
       THEN Remove(SubSeq(text, Len(old) + 1, Len(text)), old)
       ELSE <<Head(text)>> \o Remove(Tail(text), old)

\* f"IMAGE:{img_path}"
Marker(img_path) == <<"IMAGE:">> \o img_path

\* extract_image_paths_from_results: results holds the output lines of the
\* tool results in order of appearance
RECURSIVE ExtractImagePathsFromResults(_)
ExtractImagePathsFromResults(results) ==
  IF results = <<>> THEN <<>>
  ELSE LET line == Head(results)
           rest == ExtractImagePathsFromResults(Tail(results))
       IN  IF StartsWith(Strip(line), <<"IMAGE:">>)
           THEN <<Strip(Remove(line, <<"IMAGE:">>))>> \o rest
           ELSE rest

\* base64.b64encode: a digit is 0..63, 64 stands for the padding "="
RECURSIVE B64Encode(_)
B64Encode(bytes) ==
  IF bytes = <<>> THEN <<>>
  ELSE LET n == Len(bytes)
           b1 == bytes[1]
           b2 == IF n >= 2 THEN bytes[2] ELSE 0
           b3 == IF n >= 3 THEN bytes[3] ELSE 0
           v == b1 * 65536 + b2 * 256 + b3
           group == << v \div 262144, (v \div 4096) % 64,
                       IF n >= 2 THEN (v \div 64) % 64 ELSE 64,
                       IF n >= 3 THEN v % 64 ELSE 64 >>
       IN  group \o (IF n > 3 THEN B64Encode(SubSeq(bytes, 4, n)) ELSE <<>>)

\* base64.b64decode
RECURSIVE B64Decode(_)
B64Decode(digits) ==
  IF Len(digits) < 4 THEN <<>>
  ELSE LET d3 == IF digits[3] = 64 THEN 0 ELSE digits[3]
           d4 == IF digits[4] = 64 THEN 0 ELSE digits[4]
           v == digits[1] * 262144 + digits[2] * 4096 + d3 * 64 + d4
           all == << v \div 65536, (v \div 256) % 256, v % 256 >>
           k == IF digits[3] = 64 THEN 1 ELSE IF digits[4] = 64 THEN 2 ELSE 3
       IN  SubSeq(all, 1, k) \o B64Decode(SubSeq(digits, 5, Len(digits)))

\* Path.suffix.lower() of the paths of the model
Suffix(image_path) ==
  IF image_path = <<"outputs/x.png">> THEN ".png"
  ELSE IF image_path = <<"outputs/y.jpg">> THEN ".jpg"
  ELSE ""

\* mime_types.get(extension, 'image/png')
MimeType(extension) ==
  CASE extension = ".png" -> "image/png"
    [] extension = ".jpg" -> "image/jpeg"
    [] extension = ".jpeg" -> "image/jpeg"
    [] extension = ".gif" -> "image/gif"
    [] extension = ".svg" -> "image/svg+xml"
    [] OTHER -> "image/png"

\* The files under settings.BASE_DIR.  A file is
\*   [kind |-> "file", bytes]   readable
\*   [kind |-> "locked", ..]    it exists and open() or read() raises
\*   [kind |-> "absent", ..]    Path.exists() is false
\* A path that is no single path token names no file.
Absent == [kind |-> "absent", bytes |-> <<>>]

Lookup(fs, image_path) ==
  IF Len(image_path) = 1 /\ image_path[1] \in DOMAIN fs THEN fs[image_path[1]] ELSE Absent

NoneB64 == <<-1>>
NoneMime == "None"

\* convert_image_to_base64 without its try/except
ConvertImageToBase64_NoTry(image_path, fs) ==
  LET f == Lookup(fs, image_path)
  IN  IF f.kind = "absent"
      THEN [success |-> FALSE, raised |-> FALSE, base64_data |-> NoneB64, mime_type |-> NoneMime]
      ELSE IF f.kind = "locked"
      THEN [success |-> FALSE, raised |-> TRUE, base64_data |-> NoneB64, mime_type |-> NoneMime]
      ELSE [success |-> TRUE, raised |-> FALSE, base64_data |-> B64Encode(f.bytes),
            mime_type |-> MimeType(Suffix(image_path))]

ConvertImageToBase64(image_path, fs) ==
  LET f == Lookup(fs, image_path)
  IN  IF f.kind = "absent"
      THEN [success |-> FALSE, raised |-> FALSE, base64_data |-> NoneB64, mime_type |-> NoneMime]
      ELSE IF f.kind = "locked"
      THEN [success |-> FALSE, raised |-> FALSE, base64_data |-> NoneB64, mime_type |-> NoneMime]
      ELSE [success |-> TRUE, raised |-> FALSE, base64_data |-> B64Encode(f.bytes),
            mime_type |-> MimeType(Suffix(image_path))]

\* the loop `for img_path in image_paths: cleaned_answer = ....replace(..).strip()`
RECURSIVE RemoveMarkers(_, _)
RemoveMarkers(answer, image_paths) ==
  IF image_paths = <<>> THEN answer
  ELSE RemoveMarkers(Strip(Remove(answer, Marker(Head(image_paths)))), Tail(image_paths))

\* process_agent_response_with_images that converts the last collected path
ProcessAgentResponseWithImages_Last(final_answer, results, fs) ==
  LET image_paths == ExtractImagePathsFromResults(results)
  IN  IF image_paths = <<>>
      THEN [raised |-> FALSE, answer |-> final_answer,
            image_base64 |-> NoneB64, image_mime |-> NoneMime]
      ELSE LET conversion == ConvertImageToBase64(image_paths[Len(image_paths)], fs)
               cleaned_answer == RemoveMarkers(final_answer, image_paths)
           IN  [raised |-> conversion.raised, answer |-> cleaned_answer,
                image_base64 |-> conversion.base64_data,
                image_mime |-> conversion.mime_type]

ProcessAgentResponseWithImages(final_answer, results, fs) ==
  LET image_paths == ExtractImagePathsFromResults(results)
  IN  IF image_paths = <<>>
      THEN [raised |-> FALSE, answer |-> final_answer,
            image_base64 |-> NoneB64, image_mime |-> NoneMime]
      ELSE LET first_image == image_paths[1]
               conversion == ConvertImageToBase64(first_image, fs)
               cleaned_answer == RemoveMarkers(final_answer, image_paths)
           IN  [raised |-> conversion.raised, answer |-> cleaned_answer,
                image_base64 |-> conversion.base64_data,
                image_mime |-> conversion.mime_type]

\* the inputs of the image processor
MaxAnswerLen == 4
ResultCounts == {0, 1, 2}

RECURSIVE SeqsUpTo(_, _)
SeqsUpTo(S, n) ==
  IF n = 0 THEN {<<>>}
  ELSE LET shorter == SeqsUpTo(S, n - 1)
       IN  shorter \cup {Append(t, x) : t \in {u \in shorter : Len(u) = n - 1}, x \in S}

Answers == SeqsUpTo(Tokens, MaxAnswerLen)

\* a marker line, a marker line with blanks around it, a line without marker
OutputLines ==
  {Marker(<<p>>) : p \in ImagePaths}
    \cup {<<" ", "IMAGE:", "outputs/x.png", " ">>, <<"outputs/x.png">>}

ResultLists == UNION {[1..n -> OutputLines] : n \in ResultCounts}

\* the bytes of the files, when they exist
Contents(p) == IF p = "outputs/x.png" THEN <<137, 80, 78, 71>> ELSE <<255, 216>>

FileStates(p) ==
  {[kind |-> "file", bytes |-> Contents(p)], [kind |-> "locked", bytes |-> <<>>], Absent}

FileSystems ==
  {fs \in [ImagePaths -> UNION {FileStates(p) : p \in ImagePaths}] :
     \A p \in ImagePaths : fs[p] \in FileStates(p)}

ImageInputs == [answer : Answers, results : ResultLists, fs : FileSystems]

NoImgIn == [answer |-> <<>>, results |-> <<>>, fs |-> [p \in ImagePaths |-> Absent]]
NoImgOut == [raised |-> FALSE, answer |-> <<"-">>, image_base64 |-> NoneB64,
             image_mime |-> "-"]

\* ---- coding_agent: one tool call after the other, in the model's order ---
\* sizes[n] is the length of the n-th result
DispatchToolCalls_FirstOnly(messages, ids, sizes, n) ==
  IF n = 0 THEN messages ELSE Append(messages, ToolResult(ids[1], sizes[1]))

\* the results appended in the reverse of the model's order
DispatchToolCalls_Reversed(messages, ids, sizes, n) ==
  [i \in 1..(Len(messages) + n) |->
     IF i <= Len(messages) THEN messages[i]
     ELSE ToolResult(ids[n + 1 - (i - Len(messages))], sizes[n + 1 - (i - Len(messages))])]

RECURSIVE DispatchToolCalls(_, _, _, _)
DispatchToolCalls(messages, ids, sizes, n) ==
  IF n = 0 THEN messages
  ELSE Append(DispatchToolCalls(messages, ids, sizes, n - 1),
              ToolResult(ids[n], sizes[n]))

\* what the for loop over response_message.tool_calls does, in order: the
\* call of execute_tool for a tool call, then the append of its result_msg
RECURSIVE DispatchEvents(_, _)
DispatchEvents(ids, n) ==
  IF n = 0 THEN <<>>
  ELSE DispatchEvents(ids, n - 1) \o << <<"execute_tool", ids[n]>>, <<"append", ids[n]>> >>

\* the ids of the calls dispatched by DispatchToolCalls, in dispatch order
DispatchedIds(before, after) ==
  [i \in 1..(Len(after) - Len(before)) |-> after[Len(before) + i].cid]

\* `steps += 1; if not has_function_call: break` and the while condition
LoopContinues_OffByOne(steps, max_steps, has_function_call) ==
  has_function_call /\ steps <= max_steps

\* the loop without `if not has_function_call: break`
LoopContinues_NoBreak(steps, max_steps, has_function_call) ==
  steps < max_steps

LoopContinues(steps, max_steps, has_function_call) ==
  has_function_call /\ steps < max_steps

\* ---- code-executor/executor.py: POST /execute and POST /reset -------------
\* app.state.exec_namespace: exists is hasattr(app.state, 'exec_namespace'),
\* globals the names that executed code has bound ("undef": not bound).  The
\* request carries the code alone: CodeRequest has no session field.
ExecNames == {"x", "y"}
ExecValues == {"1", "2"}
\* the sessions whose agent runs send code to the executor
ExecSessions == {"sA", "sB"}

FreshGlobals == [n \in ExecNames |-> "undef"]

NoNamespace == [exists |-> FALSE, globals |-> FreshGlobals]

\* the code of a tool call: `name = value` or `print(name)`
Codes ==
  [op : {"assign"}, name : ExecNames, value : ExecValues]
    \cup [op : {"print"}, name : ExecNames, value : {"-"}]

\* exec(request.code, namespace): the globals afterwards, and what the
\* response carries (stdout under results, str(e) under errors)
Exec(globals, code) ==
  IF code.op = "assign"
  THEN [globals |-> [globals EXCEPT ![code.name] = code.value],
        results |-> <<>>, errors |-> <<>>]
  ELSE IF globals[code.name] = "undef"
       THEN [globals |-> globals, results |-> <<>>, errors |-> <<"NameError">>]
       ELSE [globals |-> globals, results |-> <<globals[code.name]>>, errors |-> <<>>]

\* execute_code of the service: one namespace, made on first use, for every
\* request
ExecuteCodeService(namespace, code) ==
  LET globals == IF namespace.exists THEN namespace.globals ELSE FreshGlobals
      e == Exec(globals, code)
  IN  [namespace |-> [exists |-> TRUE, globals |-> e.globals],
       results |-> e.results, errors |-> e.errors]

\* reset_namespace
ResetNamespace(namespace) == NoNamespace

\* The last execution: who sent it, what it got, and (bookkeeping) alone[s],
\* the globals that the code sent by session s alone has bound since the last
\* reset, with what the execution would have got from them
NoExecOut ==
  [session |-> "-", code |-> [op |-> "-", name |-> "-", value |-> "-"],
   results |-> <<>>, errors |-> <<>>,
   own_results |-> <<>>, own_errors |-> <<>>,
   alone |-> [s \in ExecSessions |-> FreshGlobals]]

\* ---- routes: DELETE /coding-agent/session/{session_id} --------------------
\* delete_session: DEL of the key; True iff a key was removed, False when
\* there was none or DEL raised
DeleteSession(st, s, delOk) ==
  [store |-> IF delOk THEN [st EXCEPT ![s] = NoSession] ELSE st,
   success |-> delOk /\ st[s].present]

\* What the Session Store does to a delete request: it answers, it cannot be
\* reached when the SessionManager is built, or DEL raises
DeleteFaults == {"none", "connect", "delete"}

\* delete_session_endpoint: the HTTPException(404) is raised inside the try
\* block, whose `except Exception` handler catches it and raises the 500
DeleteSessionEndpoint(st, s, fault) ==
  IF fault = "connect" THEN [store |-> st, status |-> 500, raised_in_try |-> 0]
  ELSE LET d == DeleteSession(st, s, fault = "none")
           raised_in_try == IF d.success THEN 0 ELSE 404
       IN  [store |-> d.store,
            status |-> IF raised_in_try = 0 THEN 200 ELSE 500,
            raised_in_try |-> raised_in_try]

\* the last delete request: existed tells whether the session was stored
\* when the request came (bookkeeping)
NoDelOut == [sid |-> "-", fault |-> "-", existed |-> FALSE, status |-> 0, raised_in_try |-> 0]

\* ---- coding_agent_endpoint: what the response is made of (lines 130-181) --
Max(S) == CHOOSE x \in S : \A y \in S : y <= x

\* new_messages = messages[messages_before_execution:]
NewMessages(messages, before) == From(messages, before)

IsToolMessage(msg) == msg.role = "tool"

\* results: the parsed contents of the tool messages of new_messages, in
\* order (the loop writes every content with json.dumps, so each one parses);
\* a result is named by the id of its tool call
Results(messages, before) ==
  LET found == SelectSeq(NewMessages(messages, before), IsToolMessage)
  IN  [i \in DOMAIN found |-> found[i].cid]

\* the positions of the assistant messages whose content is not empty
TextTurns(messages) ==
  {i \in DOMAIN messages : messages[i].role = "assistant" /\ messages[i].text}

\* "Unable to generate a response. Please try again."
FixedAnswer == [fixed |-> TRUE, at |-> 0]

\* final_answer without the second look at the whole list
FinalAnswer_NewOnly(messages, before) ==
  LET new == {i \in TextTurns(messages) : i > before}
  IN  IF new # {} THEN [fixed |-> FALSE, at |-> Max(new)] ELSE FixedAnswer

\* final_answer: the content of the last text-bearing assistant message of
\* new_messages, else of the whole list, else the fixed text; at is the
\* position in messages of the message the answer is taken from
FinalAnswer(messages, before) ==
  LET all == TextTurns(messages)
      new == {i \in all : i > before}
  IN  IF new # {} THEN [fixed |-> FALSE, at |-> Max(new)]
      ELSE IF all # {} THEN [fixed |-> FALSE, at |-> Max(all)]
      ELSE FixedAnswer

\* steps_taken = len([m for m in messages if m.get("type") == "function_call"])
StepsTaken(messages) ==
  Cardinality({i \in DOMAIN messages : messages[i].type = "function_call"})

\* ---- one request slot ---------------------------------------------------
\* failed holds the ids of the tool calls whose result was a soft failure
\* (bookkeeping)
IdleReq ==
  [pc |-> "idle", sid |-> "-", rid |-> 0, max_steps |-> 0, messages |-> <<>>,
   usage |-> 0, steps |-> 0, before |-> 0, status |-> 0, saved |-> FALSE,
   start |-> <<>>, read |-> "-", session_ttl |-> 0, events |-> <<>>,
   mainCalls |-> 0, sumCalls |-> 0,
   sentMain |-> <<>>, sentSum |-> <<>>,
   cmpIn |-> <<>>, cmpUsage |-> 0, cmpOut |-> <<>>, dispatched |-> <<>>,
   steps_taken |-> 0, results |-> <<>>, answer |-> FixedAnswer, failed |-> {}]

Init ==
  /\ store = [s \in Sessions |-> NoSession]
  /\ req = [r \in Slots |-> IdleReq]
  /\ nreq = 0
  /\ granted = 0
  /\ toolIn = NoCall
  /\ toolOut = NoOut
  /\ imgIn = NoImgIn
  /\ imgOut = NoImgOut
  /\ cmpArgs = NoCmpArgs
  /\ cmpRet = NoCmpRet
  /\ ns = NoNamespace
  /\ execOut = NoExecOut
  /\ delOut = NoDelOut

\* What the Session Store does to the start of a request:
\*   "none"     it answers
\*   "connect"  the process has no SessionManager yet and the store is
\*              unreachable: the constructor's ping raises (session_manager 40-44)
\*   "get"      GET raises a redis.RedisError
\*   "decode"   the stored value is not JSON (json.JSONDecodeError)
\* A read that fails on a key that does not exist gives what the read of the
\* absent key gives: failing reads are enumerated for stored sessions only.
\* The request records "ok", "failed" (get, decode) or "connect" as read.
ReadFaults == {"none", "connect", "get", "decode"}

\* coding_agent_endpoint lines 81-98 and coding_agent up to the loop head
\* (a request takes the lowest slot that has not served one yet)
Begin(r) ==
  /\ req[r].pc = "idle"
  /\ \A r2 \in Slots : r2 < r => req[r2].pc # "idle"
  /\ \E s \in Sessions, ms \in 1..MaxSteps, fault \in ReadFaults :
       LET prior == GetMessages(store, s, fault = "none")
           qsz == 1
       IN  /\ granted + ms <= MaxTotalSteps
           /\ fault \in {"get", "decode"} => store[s].present
           /\ granted' = granted + ms
           /\ req' = [req EXCEPT ![r] =
                     IF fault = "connect"
                     THEN [IdleReq EXCEPT !.pc = "done", !.status = 500,
                                          !.sid = s, !.rid = nreq + 1, !.max_steps = ms,
                                          !.read = "connect"]
                     ELSE [IdleReq EXCEPT !.pc = IF 0 < ms THEN "loop" ELSE "ret",
                                          !.sid = s, !.rid = nreq + 1, !.max_steps = ms,
                                          !.messages = Append(prior, UserTurn(qsz, nreq + 1)),
                                          !.before = Len(prior), !.start = prior,
                                          !.read = IF fault = "none" THEN "ok"
                                                   ELSE "failed"]]
  /\ nreq' = nreq + 1
  /\ UNCHANGED <<store, toolIn, toolOut, imgIn, imgOut, cmpArgs, cmpRet, ns, execOut, delOut>>

\* what one model response carries
\* ntc tool calls, the reported total_tokens and the lengths of the tool
\* results; the dumped assistant message grows with each tool call it lists
\* text tells whether the content is a non-empty text, kinds what each tool
\* result holds (here: a text iff no tool call is listed, every tool succeeds)
Responses ==
  UNION {[ntc : {n}, usage : UsageValues, asz : {1 + n}, sizes : [1..n -> Sizes],
          text : {n = 0}, kinds : {[k \in 1..n |-> "ok"]}]
           : n \in ToolCallCounts}

CallIds(q, n) == [k \in 1..n |-> <<q.rid, q.steps + 1, k>>]

\* `usage = response.usage.total_tokens` with `usage += ...` in its place
NextUsage_Adds(usage, total_tokens) == usage + total_tokens

\* usage = response.usage.total_tokens
NextUsage(usage, total_tokens) == total_tokens

\* result_msg["content"] = json.dumps(result): the results appended after
\* the first `base` entries hold what execute_tool returned for their calls
WithContents(messages, base, kinds) ==
  [i \in DOMAIN messages |->
     IF i > base THEN [messages[i] EXCEPT !.res = kinds[i - base]] ELSE messages[i]]

\* the request after one iteration of the while loop in which both model
\* calls succeed and the main call answers resp
Iteration(q, resp) ==
  LET snap == 1
      cleaned == CleanMessagesForLlm(q.messages)
      k == CompressIndex(cleaned, q.usage)
      working == MaybeCompressMessages(cleaned, q.usage, snap, q.rid)
      payload == CleanMessagesForLlm(working)
      ids == CallIds(q, resp.ntc)
      withAsst == Append(working, [AssistantTurn(ids, resp.asz, q.rid)
                                     EXCEPT !.text = resp.text])
      dispatched == DispatchToolCalls(withAsst, ids, resp.sizes, resp.ntc)
      final == WithContents(dispatched, Len(withAsst), resp.kinds)
  IN  [q EXCEPT !.messages = final,
                !.usage = NextUsage(q.usage, resp.usage),
                !.steps = q.steps + 1,
                !.pc = IF LoopContinues(q.steps + 1, q.max_steps, resp.ntc > 0)
                       THEN "loop" ELSE "ret",
                !.mainCalls = q.mainCalls + 1,
                !.sumCalls = IF k = -1 THEN q.sumCalls ELSE q.sumCalls + 1,
                !.sentMain = payload,
                !.sentSum = IF k = -1 THEN q.sentSum ELSE Upto(cleaned, k),
                !.cmpIn = cleaned, !.cmpUsage = q.usage, !.cmpOut = working,
                !.dispatched = q.dispatched \o DispatchedIds(withAsst, final),
                !.events = DispatchEvents(ids, resp.ntc),
                !.failed = q.failed \cup {ids[n] : n \in {n \in 1..resp.ntc : resp.kinds[n] # "ok"}}]

\* one iteration of the while loop in which both model calls succeed
StepOk(r) ==
  /\ req[r].pc = "loop"
  /\ \E resp \in Responses : req' = [req EXCEPT ![r] = Iteration(req[r], resp)]
  /\ UNCHANGED <<store, nreq, granted, toolIn, toolOut, imgIn, imgOut, cmpArgs, cmpRet, ns, execOut, delOut>>


\* an iteration whose summarisation call (compress_messages) raises: the
\* exception leaves coding_agent and log, the endpoint's handler answers 500
StepSummaryFails(r) ==
  /\ req[r].pc = "loop"
  /\ LET q == req[r]
         cleaned == CleanMessagesForLlm(q.messages)
         k == CompressIndex(cleaned, q.usage)
     IN  /\ k # -1
         /\ req' = [req EXCEPT ![r] =
              [q EXCEPT !.pc = "done", !.status = 500,
                        !.sumCalls = q.sumCalls + 1,
                        !.sentSum = Upto(cleaned, k),
                        !.cmpIn = cleaned, !.cmpUsage = q.usage, !.cmpOut = <<>>]]
  /\ UNCHANGED <<store, nreq, granted, toolIn, toolOut, imgIn, imgOut, cmpArgs, cmpRet, ns, execOut, delOut>>

\* the same failure in an endpoint that writes the transcript back before it answers
StepModelFails_Saves(r) ==
  /\ req[r].pc = "loop"
  /\ LET q == req[r]
         working == MaybeCompressMessages(CleanMessagesForLlm(q.messages), q.usage, 1, q.rid)
     IN  /\ req' = [req EXCEPT ![r] =
                [q EXCEPT !.pc = "done", !.status = 500, !.messages = working,
                          !.mainCalls = q.mainCalls + 1]]
         /\ store' = SaveMessages(store, q.sid, working, TRUE, q.rid)
  /\ UNCHANGED <<nreq, granted, toolIn, toolOut, imgIn, imgOut, cmpArgs, cmpRet, ns, execOut, delOut>>

\* an iteration whose main model call raises (after a possible compression)
StepModelFails(r) ==
  /\ req[r].pc = "loop"
  /\ LET q == req[r]
         snap == 1
         cleaned == CleanMessagesForLlm(q.messages)
         k == CompressIndex(cleaned, q.usage)
         working == MaybeCompressMessages(cleaned, q.usage, snap, q.rid)
     IN  req' = [req EXCEPT ![r] =
                [q EXCEPT !.pc = "done", !.status = 500,
                          !.messages = working,
                          !.mainCalls = q.mainCalls + 1,
                          !.sumCalls = IF k = -1 THEN q.sumCalls ELSE q.sumCalls + 1,
                          !.sentMain = CleanMessagesForLlm(working),
                          !.sentSum = IF k = -1 THEN q.sentSum ELSE Upto(cleaned, k),
                          !.cmpIn = cleaned, !.cmpUsage = q.usage, !.cmpOut = working]]
  /\ UNCHANGED <<store, nreq, granted, toolIn, toolOut, imgIn, imgOut, cmpArgs, cmpRet, ns, execOut, delOut>>

\* What the Session Store does to the end of a request:
\*   "ok"            SETEX and TTL both answer
\*   "write_failed"  SETEX (or json.dumps) raises, TTL answers
\*   "down"          both raise
StoreOutcomes == {"ok", "write_failed", "down"}

\* coding_agent_endpoint lines 124-181: save the returned transcript (the
\* value save_messages returns is dropped), read the TTL, answer 200
Finish(r) ==
  /\ req[r].pc = "ret"
  /\ \E outcome \in StoreOutcomes :
       LET writeOk == outcome = "ok"
           ttlOk == outcome # "down"
       IN  /\ store' = SaveMessages(store, req[r].sid, req[r].messages, writeOk, req[r].rid)
           /\ req' = [req EXCEPT ![r] =
                       [@ EXCEPT !.pc = "done", !.status = 200, !.saved = writeOk,
                                 !.session_ttl = GetSessionTtl(store', req[r].sid, ttlOk),
                                 !.results = Results(req[r].messages, req[r].before),
                                 !.answer = FinalAnswer(req[r].messages, req[r].before),
                                 !.steps_taken = StepsTaken(req[r].messages)]]
  /\ UNCHANGED <<nreq, granted, toolIn, toolOut, imgIn, imgOut, cmpArgs, cmpRet, ns, execOut, delOut>>

Next ==
  \/ \E r \in Slots : Begin(r)
  \/ \E r \in Slots : StepOk(r)
  \/ \E r \in Slots : StepSummaryFails(r)
  \/ \E r \in Slots : StepModelFails(r)
  \/ \E r \in Slots : Finish(r)

Spec == Init /\ [][Next]_vars


\* ---- requests one after the other on a Session Store that answers -------
BeginPlain(r) ==
  /\ \A r2 \in Slots : req[r2].pc \in {"idle", "done"}
  /\ Begin(r)
  /\ req'[r].read = "ok"

FinishPlain(r) ==
  /\ Finish(r)
  /\ req'[r].saved
  /\ req'[r].session_ttl # NoTtl

\* ---- the loop with tool calls that fail softly ---------------------------
\* what a tool call of a response may be: a good call, arguments without
\* "code", arguments that are not JSON, a name outside the registry, code
\* that the executor reports an error for, an executor that times out, an
\* executor that cannot be reached
SoftCalls ==
  {[name |-> "execute_code", args |-> "obj_ok", exec |-> "ok"],
   [name |-> "execute_code", args |-> "obj_missing", exec |-> "ok"],
   [name |-> "execute_code", args |-> "bad_json", exec |-> "ok"],
   [name |-> "no_such_tool", args |-> "obj_ok", exec |-> "ok"],
   [name |-> "execute_code", args |-> "obj_ok", exec |-> "error"],
   [name |-> "execute_code", args |-> "obj_ok", exec |-> "timeout"],
   [name |-> "execute_code", args |-> "obj_ok", exec |-> "http"]}

\* what json.dumps(result) holds for a result of execute_tool
ResultKind(out) ==
  IF "error" \in out.keys THEN "error" ELSE IF out.errs THEN "errors" ELSE "ok"

\* the length of the content: the error of the dispatcher is the shortest,
\* the printed output of executed code the longest
ContentSize(kind) == IF kind = "error" THEN 1 ELSE IF kind = "errors" THEN 2 ELSE 3

SoftResponses ==
  UNION {{[ntc |-> n, usage |-> u, asz |-> 1 + n, text |-> n = 0,
           kinds |-> [k \in 1..n |->
                        ResultKind(ExecuteTool(calls[k].name, calls[k].args, calls[k].exec))],
           sizes |-> [k \in 1..n |->
                        ContentSize(ResultKind(ExecuteTool(calls[k].name, calls[k].args,
                                                           calls[k].exec)))]]
            : u \in UsageValues, calls \in [1..n -> SoftCalls]}
           : n \in ToolCallCounts}

StepSoft(r) ==
  /\ req[r].pc = "loop"
  /\ \E resp \in SoftResponses : req' = [req EXCEPT ![r] = Iteration(req[r], resp)]
  /\ UNCHANGED <<store, nreq, granted, toolIn, toolOut, imgIn, imgOut, cmpArgs, cmpRet, ns, execOut, delOut>>

NextSoft ==
  \/ \E r \in Slots : BeginPlain(r)
  \/ \E r \in Slots : StepSoft(r)
  \/ \E r \in Slots : FinishPlain(r)

SpecSoft == Init /\ [][NextSoft]_vars

\* ---- the loop with responses that carry a text or none -------------------
\* (tool results of one length: the lengths only move the place where
\* compression cuts)
TextResponses ==
  UNION {[ntc : {n}, usage : UsageValues, asz : {1 + n}, sizes : [1..n -> {2}],
          text : BOOLEAN, kinds : {[k \in 1..n |-> "ok"]}]
           : n \in ToolCallCounts}

StepText(r) ==
  /\ req[r].pc = "loop"
  /\ \E resp \in TextResponses : req' = [req EXCEPT ![r] = Iteration(req[r], resp)]
  /\ UNCHANGED <<store, nreq, granted, toolIn, toolOut, imgIn, imgOut, cmpArgs, cmpRet, ns, execOut, delOut>>

NextAnswer ==
  \/ \E r \in Slots : BeginPlain(r)
  \/ \E r \in Slots : StepText(r)
  \/ \E r \in Slots : FinishPlain(r)

SpecAnswer == Init /\ [][NextAnswer]_vars

\* ---- the dispatcher on its own: every input, one dispatch ----------------
InitTool ==
  /\ store = [s \in Sessions |-> NoSession]
  /\ req = [r \in Slots |-> IdleReq]
  /\ nreq = 0
  /\ granted = 0
  /\ toolIn \in ToolInputs
  /\ toolOut = NoOut
  /\ imgIn = NoImgIn
  /\ imgOut = NoImgOut
  /\ cmpArgs = NoCmpArgs
  /\ cmpRet = NoCmpRet
  /\ ns = NoNamespace
  /\ execOut = NoExecOut
  /\ delOut = NoDelOut

Dispatch ==
  /\ toolIn # NoCall
  /\ toolOut = NoOut
  /\ toolOut' = ExecuteTool(toolIn.name, toolIn.args, toolIn.exec)
  /\ UNCHANGED <<store, req, nreq, granted, toolIn, imgIn, imgOut, cmpArgs, cmpRet, ns, execOut, delOut>>

NextTool == Dispatch

SpecTool == InitTool /\ [][NextTool]_vars

\* ---- the history compressor on its own: every transcript, one call --------
MaxTranscriptLen == 4

CallId0 == <<0, 1, 1>>

CmpEntries ==
  {UserTurn(1, 0), AssistantTurn(<<>>, 1, 0), AssistantTurn(<<CallId0>>, 2, 0),
   ToolResult(CallId0, 1), ToolResult(CallId0, 2)}

\* ten entries of 100 characters each, user and assistant turns in any pattern
ScenarioTranscripts ==
  {[i \in 1..10 |-> IF i \in U THEN UserTurn(100, 0) ELSE AssistantTurn(<<>>, 100, 0)]
     : U \in SUBSET (1..10)}

Transcripts == SeqsUpTo(CmpEntries, MaxTranscriptLen) \cup ScenarioTranscripts

CompressUsages == {0, 42000, 42001, 50000}

InitCompress ==
  /\ store = [s \in Sessions |-> NoSession]
  /\ req = [r \in Slots |-> IdleReq]
  /\ nreq = 0
  /\ granted = 0
  /\ toolIn = NoCall
  /\ toolOut = NoOut
  /\ imgIn = NoImgIn
  /\ imgOut = NoImgOut
  /\ cmpArgs \in [messages : Transcripts, usage : CompressUsages]
  /\ cmpRet = NoCmpRet
  /\ ns = NoNamespace
  /\ execOut = NoExecOut
  /\ delOut = NoDelOut

\* one call maybe_compress_messages(client, messages, usage)
MaybeCompress ==
  /\ ~cmpRet.done
  /\ LET k == CompressIndex(cmpArgs.messages, cmpArgs.usage)
     IN  cmpRet' = [done |-> TRUE,
                    calls |-> IF k = -1 THEN 0 ELSE 1,
                    sent |-> IF k = -1 THEN <<>> ELSE Upto(cmpArgs.messages, k),
                    ret |-> MaybeCompressMessages(cmpArgs.messages, cmpArgs.usage, 1, 0)]
  /\ UNCHANGED <<store, req, nreq, granted, toolIn, toolOut, imgIn, imgOut, cmpArgs, ns, execOut, delOut>>

NextCompress == MaybeCompress

SpecCompress == InitCompress /\ [][NextCompress]_vars

\* ---- the image processor on its own: every input, one call ---------------
InitImage ==
  /\ store = [s \in Sessions |-> NoSession]
  /\ req = [r \in Slots |-> IdleReq]
  /\ nreq = 0
  /\ granted = 0
  /\ toolIn = NoCall
  /\ toolOut = NoOut
  /\ imgIn \in ImageInputs
  /\ imgOut = NoImgOut
  /\ cmpArgs = NoCmpArgs
  /\ cmpRet = NoCmpRet
  /\ ns = NoNamespace
  /\ execOut = NoExecOut
  /\ delOut = NoDelOut

Process ==
  /\ imgOut = NoImgOut
  /\ imgOut' = ProcessAgentResponseWithImages(imgIn.answer, imgIn.results, imgIn.fs)
  /\ UNCHANGED <<store, req, nreq, granted, toolIn, toolOut, imgIn, cmpArgs, cmpRet, ns, execOut, delOut>>

NextImage == Process

SpecImage == InitImage /\ [][NextImage]_vars

\* ---- the Session Store on its own: writes and the passing of time ---------
\* the step of the clock of the model
TickSeconds == SESSION_EXPIRY \div 4

StoredTranscripts == SeqsUpTo(CmpEntries, 2)

\* session_manager.save_messages(session_id, messages)
Write(s) ==
  /\ \E messages \in StoredTranscripts, writeOk \in BOOLEAN :
       store' = SaveMessages(store, s, messages, writeOk, 1)
  /\ UNCHANGED <<req, nreq, granted, toolIn, toolOut, imgIn, imgOut, cmpArgs, cmpRet, ns, execOut, delOut>>

\* TickSeconds pass: Redis counts the lifetime of every key down and drops
\* the keys whose lifetime is over (an absent key keeps its age, capped)
Expire(k) ==
  IF ~k.present THEN [k EXCEPT !.age = IF @ = 0 THEN 0 ELSE SESSION_EXPIRY]
  ELSE IF k.ttl - TickSeconds <= 0
       THEN [NoSession EXCEPT !.age = k.age + TickSeconds]
       ELSE [k EXCEPT !.ttl = @ - TickSeconds, !.age = @ + TickSeconds]

Tick ==
  /\ store' = [s \in Sessions |-> Expire(store[s])]
  /\ store' # store
  /\ UNCHANGED <<req, nreq, granted, toolIn, toolOut, imgIn, imgOut, cmpArgs, cmpRet, ns, execOut, delOut>>

\* DELETE /coding-agent/session/{session_id}
Delete(s) ==
  /\ \E fault \in DeleteFaults :
       LET d == DeleteSessionEndpoint(store, s, fault)
       IN  /\ store' = d.store
           /\ delOut' = [sid |-> s, fault |-> fault, existed |-> store[s].present,
                         status |-> d.status, raised_in_try |-> d.raised_in_try]
  /\ UNCHANGED <<req, nreq, granted, toolIn, toolOut, imgIn, imgOut, cmpArgs, cmpRet, ns, execOut>>

NextStore ==
  \/ \E s \in Sessions : Write(s)
  \/ \E s \in Sessions : Delete(s)
  \/ Tick

SpecStore == Init /\ [][NextStore]_vars

\* ---- the executor service on its own: code sent by the runs of sessions ---
\* one tool call of a run of session s: execute_code_tool posts the code
Execute(s) ==
  /\ \E code \in Codes :
       LET e == ExecuteCodeService(ns, code)
           own == Exec(execOut.alone[s], code)
       IN  /\ ns' = e.namespace
           /\ execOut' = [session |-> s, code |-> code,
                          results |-> e.results, errors |-> e.errors,
                          own_results |-> own.results, own_errors |-> own.errors,
                          alone |-> [execOut.alone EXCEPT ![s] = own.globals]]
  /\ UNCHANGED <<store, req, nreq, granted, toolIn, toolOut, imgIn, imgOut, cmpArgs, cmpRet, delOut>>

\* POST /reset
Reset ==
  /\ ns.exists
  /\ ns' = ResetNamespace(ns)
  /\ execOut' = NoExecOut
  /\ UNCHANGED <<store, req, nreq, granted, toolIn, toolOut, imgIn, imgOut, cmpArgs, cmpRet, delOut>>

NextExec ==
  \/ \E s \in ExecSessions : Execute(s)
  \/ Reset

SpecExec == Init /\ [][NextExec]_vars

\* ==========================================================================
\* Properties
\* ==========================================================================
Started(r) == req[r].pc # "idle"
Returned(r) == req[r].pc = "ret" \/ (req[r].pc = "done" /\ req[r].status = 200)
Ids(seq) == {seq[i] : i \in DOMAIN seq}
Threshold(usage) ==
  usage * COMPRESS_THRESHOLD_DEN > TOKEN_LIMIT * COMPRESS_THRESHOLD_NUM

\* every tool result has an earlier assistant turn that issued its call id
WellFormed(m) ==
  \A i \in DOMAIN m :
    m[i].role = "tool" =>
      \E j \in 1..(i - 1) : m[j].role = "assistant" /\ m[i].cid \in Ids(m[j].tcs)

\* C1 (as stated): a run makes at most max_steps language-model calls in
\* all, the summarisation calls of the compressor included.
C1_AtMostMaxStepsModelCalls ==
  \A r \in Slots :
    Started(r) => req[r].mainCalls + req[r].sumCalls <= req[r].max_steps

\* C1 (amended): a run makes at most max_steps main model calls, at most one
\* summarisation call before each of them and none before the first (the
\* endpoint starts with usage 0), and the loop is left once max_steps
\* iterations are done: it iterates only while steps < max_steps.
C1_LoopTerminates ==
  \A r \in Slots :
    Started(r) =>
      /\ req[r].mainCalls <= req[r].max_steps
      /\ req[r].sumCalls <= req[r].max_steps - 1
      /\ req[r].steps <= req[r].max_steps
      /\ (req[r].pc = "loop" => req[r].steps < req[r].max_steps)
      /\ (Returned(r) => req[r].mainCalls = req[r].steps /\ req[r].steps >= 1)

C1_Witness ==
  \E r \in Slots :
    /\ req[r].pc = "ret"
    /\ req[r].max_steps = 2
    /\ req[r].mainCalls = 2
    /\ req[r].sumCalls = 1

\* C2: after every iteration (before the next model call or the return) the
\* transcript ends with the assistant turn just appended followed by exactly
\* one tool result per tool call of that turn, with the same call ids, and
\* each of these calls was dispatched exactly once.
C2_NoOrphanedToolCalls ==
  \A r \in Slots :
    (req[r].steps > 0 /\ (req[r].pc = "loop" \/ Returned(r))) =>
      LET m == req[r].messages
          a == CHOOSE i \in DOMAIN m :
                 /\ m[i].role = "assistant"
                 /\ \A j \in DOMAIN m : m[j].role = "assistant" => j <= i
          d == req[r].dispatched
      IN  /\ Len(m) - a = Len(m[a].tcs)
          /\ \A k \in 1..Len(m[a].tcs) :
               /\ m[a + k].role = "tool"
               /\ m[a + k].cid = m[a].tcs[k]
               /\ Cardinality({i \in DOMAIN d : d[i] = m[a].tcs[k]}) = 1

\* max_steps exhausted on a step that requested two tool calls
C2_Witness ==
  \E r \in Slots :
    /\ req[r].pc = "ret"
    /\ req[r].steps = req[r].max_steps
    /\ Len(req[r].messages) >= 3
    /\ req[r].messages[Len(req[r].messages)].role = "tool"
    /\ Len(req[r].messages[Len(req[r].messages) - 2].tcs) = 2

\* C3: whenever maybe_compress_messages compresses, the kept suffix does not
\* begin with a tool result whose assistant turn is in the compressed prefix.
C3_CompressionBoundary ==
  \A r \in Slots :
    LET m == req[r].cmpIn
        k == CompressIndex(m, req[r].cmpUsage)
    IN  (k # -1 /\ k < Len(m)) =>
          ~ /\ m[k + 1].role = "tool"
            /\ \E j \in 1..k : m[j].role = "assistant" /\ m[k + 1].cid \in Ids(m[j].tcs)

\* C4: starting from a well-formed prior transcript, every message list sent
\* to the main model call is well-formed (each tool result is preceded by the
\* assistant turn that issued its call id).
C4_SentTranscriptWellFormed ==
  \A r \in Slots :
    WellFormed(req[r].start) => WellFormed(req[r].sentMain)

\* C5: no entry of a payload sent to a language model (main call or
\* summarisation call) carries the "_metadata" key.
C5_NoInternalMetadataSent ==
  \A r \in Slots :
    /\ \A i \in DOMAIN req[r].sentMain : ~req[r].sentMain[i].meta
    /\ \A i \in DOMAIN req[r].sentSum : ~req[r].sentSum[i].meta

\* both payloads of one request held a tool result (stored with "_metadata")
C5_Witness ==
  \E r \in Slots :
    /\ \E i \in DOMAIN req[r].sentMain : req[r].sentMain[i].role = "tool"
    /\ \E i \in DOMAIN req[r].sentSum : req[r].sentSum[i].role = "tool"

\* C6: every tool result appended during a run still carries "_metadata" in
\* the transcript the run returns and in the value the endpoint stores.
C6_MetadataKeptInTranscript ==
  /\ \A r \in Slots :
       Returned(r) =>
         \A i \in DOMAIN req[r].messages :
           (req[r].messages[i].role = "tool" /\ req[r].messages[i].by = req[r].rid)
             => req[r].messages[i].meta
  /\ \A s \in Sessions :
       \A i \in DOMAIN store[s].data :
         (store[s].data[i].role = "tool" /\ store[s].data[i].by = store[s].writer)
           => store[s].data[i].meta

\* raw arguments that are not a JSON object with exactly the tool's parameters
\* of the right types, or a tool name outside the registry
Malformed(in) == in.args # "obj_ok" \/ in.name \notin Registry

\* C7 (as stated): execute_tool never raises and, for every malformed input,
\* returns a result with an "error" key.
C7_ErrorKeyForEveryMalformedInput ==
  toolOut # NoOut =>
    /\ ~toolOut.raised
    /\ Malformed(toolIn) => "error" \in toolOut.keys

\* C7 (amended): execute_tool never raises; invalid JSON, an unknown tool
\* name, arguments that are not a mapping, and missing, unknown or colliding
\* keys give a result with an "error" key; a known key with a value of the
\* wrong type is passed on to the tool, and the result then has the keys
\* "results" and "errors" and no "error" key.
C7_DispatcherNeverRaises ==
  toolOut # NoOut =>
    /\ ~toolOut.raised
    /\ (toolIn.name \notin Registry \/ toolIn.args \notin {"obj_ok", "obj_type"})
         => (toolOut.keys = {"error"} /\ ~toolOut.invoked)
    /\ (toolIn.name \in Registry /\ toolIn.args = "obj_type")
         => (toolOut.keys = {"results", "errors"} /\ toolOut.invoked)

C7_Witness ==
  /\ toolIn.name = "execute_code"
  /\ toolIn.args = "obj_missing"
  /\ toolOut.keys = {"error"}

\* C8: a request whose model call (main or summarisation) failed is answered
\* with 500, made the failing call once, holds no assistant turn for it, was
\* never written to the Session Store, and takes no further step.
C8_ModelFailurePropagates ==
  \A r \in Slots :
    (req[r].status = 500 /\ req[r].read # "connect") =>
      /\ req[r].pc = "done"
      /\ ~req[r].saved
      /\ store[req[r].sid].writer # req[r].rid
      /\ req[r].mainCalls + req[r].sumCalls >= req[r].steps + 1
      /\ req[r].mainCalls \in {req[r].steps, req[r].steps + 1}
      /\ Cardinality({i \in DOMAIN req[r].messages :
                        /\ req[r].messages[i].role = "assistant"
                        /\ ~req[r].messages[i].syn
                        /\ req[r].messages[i].by = req[r].rid}) <= req[r].steps

\* a request failed in its main call after a compression, against a session
\* another request had stored
C8_Witness ==
  \E r \in Slots :
    /\ req[r].status = 500
    /\ req[r].mainCalls = 2
    /\ req[r].sumCalls = 1
    /\ store[req[r].sid].present

\* C9: when two requests for one session started from the same transcript and
\* both wrote, the stored transcript is the one of the request that wrote
\* last and holds no entry appended by the other one.
C9_LastWriteWins ==
  \A r1, r2 \in Slots :
    ( /\ r1 # r2
      /\ req[r1].pc = "done" /\ req[r1].saved
      /\ req[r2].pc = "done" /\ req[r2].saved
      /\ req[r1].sid = req[r2].sid
      /\ req[r1].start = req[r2].start
      /\ store[req[r1].sid].writer = req[r1].rid )
    => /\ store[req[r1].sid].data = req[r1].messages
       /\ \A i \in DOMAIN store[req[r1].sid].data :
            store[req[r1].sid].data[i].by # req[r2].rid

\* the request that started first wrote last: the whole run of the second
\* one, from its read to its write, took place in between
C9_Witness ==
  /\ req[1].pc = "done" /\ req[1].saved
  /\ req[2].pc = "done" /\ req[2].saved
  /\ req[1].start = req[2].start
  /\ store["s1"].writer = req[1].rid
  /\ Len(req[2].messages) >= 3

\* C10: when compression is triggered and no user turn exists at or after the
\* computed split index, maybe_compress_messages returns its argument
\* unchanged (and makes no summarisation call).
C10_SkipWithoutUserTurn ==
  \A r \in Slots :
    LET m == req[r].cmpIn
        c0 == GetCompressMessageIndex(m)
    IN  ( /\ Threshold(req[r].cmpUsage)
          /\ c0 < Len(m)
          /\ \A i \in (c0 + 1)..Len(m) : m[i].role # "user" )
        => req[r].cmpOut = m

\* C11: when the entry just before the advanced split index is an assistant
\* turn that issued tool calls (as the loop appends it), the final split
\* index is one more, so that the tool result is compressed with its call.
C11_ToolResultJoinsCompressedPart ==
  \A r \in Slots :
    LET m == req[r].cmpIn
        a == AdvancedIndex(m, req[r].cmpUsage)
    IN  (a > 0 /\ m[a].role = "assistant" /\ m[a].tcs # <<>>)
          => CompressIndex(m, req[r].cmpUsage) = a + 1

\* the 0-based index of the entry at which the cumulative length first
\* reaches 0.7 of the total (there is one whenever the transcript is not empty)
ReachingIndex(m) ==
  Min({i \in 0..(Len(m) - 1) :
         CurrChars(m, i + 1) * COMPRESS_THRESHOLD_DEN
           >= CurrChars(m, Len(m)) * COMPRESS_THRESHOLD_NUM})

\* C12 (as stated): the entry at which the target is reached belongs to the
\* to-compress side (the split candidate is the number of entries up to and
\* including it): whenever maybe_compress_messages compresses, that entry is
\* among the entries it summarises; for ten entries of 100 characters the
\* candidate is 7.
C12_ReachingEntryIsCompressed ==
  (cmpRet.done /\ cmpArgs.messages # <<>>) =>
    /\ GetCompressMessageIndex(cmpArgs.messages) = ReachingIndex(cmpArgs.messages) + 1
    /\ cmpRet.calls = 1 => Len(cmpRet.sent) >= ReachingIndex(cmpArgs.messages) + 1
    /\ cmpArgs.messages \in ScenarioTranscripts
         => GetCompressMessageIndex(cmpArgs.messages) = 7

\* C12 (amended): the split candidate is the 0-based index of the entry at
\* which the cumulative length first reaches the target: the entries before
\* it stay below the target, and it is 6 for ten entries of 100 characters.
\* The final index is the candidate plus the offset of the first user turn at
\* or after it (plus 0 when there is none); the entries before the final
\* index are summarised and the others kept behind the two synthetic
\* entries, so the reaching entry is kept when it is a user turn.
C12_SplitCandidateIsReachingIndex ==
  (cmpRet.done /\ cmpArgs.messages # <<>>) =>
    LET m == cmpArgs.messages
        c0 == GetCompressMessageIndex(m)
        total == CurrChars(m, Len(m))
    IN  /\ c0 < Len(m)
        /\ CurrChars(m, c0) * COMPRESS_THRESHOLD_DEN < total * COMPRESS_THRESHOLD_NUM
             \/ (c0 = 0 /\ total = 0)
        /\ CurrChars(m, c0 + 1) * COMPRESS_THRESHOLD_DEN >= total * COMPRESS_THRESHOLD_NUM
        /\ m \in ScenarioTranscripts => c0 = 6
        /\ cmpRet.calls = 1 =>
             /\ Len(cmpRet.sent) = c0 + GetFirstUserMessageIndex(From(m, c0))
             /\ cmpRet.sent = Upto(m, Len(cmpRet.sent))
             /\ cmpRet.ret = CompressMessages(1, 0) \o From(m, Len(cmpRet.sent))
             /\ m[c0 + 1].role = "user" => cmpRet.ret[3] = m[c0 + 1]

\* the scenario, its seventh entry (index 6) a user turn: six entries are
\* summarised and four kept
C12_Witness ==
  /\ cmpRet.done
  /\ cmpArgs.messages \in ScenarioTranscripts
  /\ cmpArgs.usage = 50000
  /\ cmpArgs.messages[7].role = "user"
  /\ cmpRet.calls = 1
  /\ Len(cmpRet.sent) = 6
  /\ Len(cmpRet.ret) = 6

\* C13: with usage <= TOKEN_LIMIT * COMPRESS_THRESHOLD (42000 included)
\* maybe_compress_messages returns its transcript unchanged and makes no
\* summarisation call, whatever the transcript.
C13_NoTriggerReturnsUnchanged ==
  (cmpRet.done /\ ~Threshold(cmpArgs.usage)) =>
    /\ cmpRet.ret = cmpArgs.messages
    /\ cmpRet.calls = 0
    /\ cmpRet.sent = <<>>

\* at the boundary value, a transcript that one more token would compress
C13_Witness ==
  /\ cmpRet.done
  /\ cmpArgs.usage = 42000
  /\ CompressIndex(cmpArgs.messages, 42001) # -1
  /\ cmpRet.ret = cmpArgs.messages
  /\ cmpRet.calls = 0

\* the responses of a run: whether response st listed tool calls, how many
HadToolCall(q, st) == \E i \in DOMAIN q.dispatched : q.dispatched[i][2] = st
ToolCallsOf(q, st) == Cardinality({i \in DOMAIN q.dispatched : q.dispatched[i][2] = st})
LastResponsePlain(q) ==
  /\ q.messages # <<>>
  /\ q.messages[Len(q.messages)].role = "assistant"
  /\ q.messages[Len(q.messages)].tcs = <<>>

\* [UserTurn, AssistantTurn(tool_calls), ToolResult, AssistantTurn(no tool_calls)]
ScenarioShape(m) ==
  /\ Len(m) = 4
  /\ m[1].role = "user" /\ ~m[1].syn
  /\ m[2].role = "assistant" /\ Len(m[2].tcs) = 1
  /\ m[3].role = "tool" /\ m[3].cid = m[2].tcs[1]
  /\ m[4].role = "assistant" /\ m[4].tcs = <<>>

\* empty prior transcript, max_steps 3, one tool call in the first response,
\* none in the second
Scenario14(q) ==
  /\ q.start = <<>>
  /\ q.max_steps = 3
  /\ q.steps = 2
  /\ ToolCallsOf(q, 1) = 1
  /\ LastResponsePlain(q)

C15_ResultsInModelOrder ==
  \A r \in Slots :
    (req[r].steps > 0 /\ (req[r].pc = "loop" \/ Returned(r))) =>
      LET m == req[r].messages
          a == CHOOSE i \in DOMAIN m :
                 /\ m[i].role = "assistant"
                 /\ \A j \in DOMAIN m : m[j].role = "assistant" => j <= i
          tcs == m[a].tcs
          ev == req[r].events
      IN  /\ Len(ev) = 2 * Len(tcs)
          /\ Len(m) = a + Len(tcs)
          /\ \A k \in 1..Len(tcs) :
               /\ ev[2 * k - 1] = <<"execute_tool", tcs[k]>>
               /\ ev[2 * k] = <<"append", tcs[k]>>
               /\ m[a + k].role = "tool"
               /\ m[a + k].cid = tcs[k]
               /\ tcs[k][3] = k

\* two tool calls whose results differ in length: long first, short second
C15_Witness ==
  \E r \in Slots :
    LET m == req[r].messages
    IN  /\ req[r].pc = "loop"
        /\ Len(m) >= 3
        /\ Len(m[Len(m) - 2].tcs) = 2
        /\ m[Len(m) - 1].size = 2
        /\ m[Len(m)].size = 1
        /\ Len(req[r].events) = 4

\* C16: a run whose final write to the Session Store failed answers
\* differently from the same run with the write done (the failure is
\* reported); the answer itself is not rolled back (status 200).
C16_WriteFailureReported ==
  \A r \in Slots :
    (req[r].pc = "done" /\ req[r].status = 200 /\ ~req[r].saved) =>
      req[r].session_ttl #
        GetSessionTtl(SaveMessages(store, req[r].sid, req[r].messages, TRUE, req[r].rid),
                      req[r].sid, TRUE)

\* a request that failed before its agent run began
FailedAtStart(q) ==
  q.pc = "done" /\ q.status = 500 /\ q.mainCalls = 0 /\ q.sumCalls = 0

\* C17 (as stated): a request that met a store error or an undecodable value
\* when it fetched its session does not fail for it and starts from the
\* empty transcript.
C17_StoreErrorNeverFailsRequest ==
  \A r \in Slots :
    req[r].read \in {"failed", "connect"} =>
      (~FailedAtStart(req[r]) /\ req[r].start = <<>>)

\* C17 (amended): when GET raises or the stored value does not decode, the
\* request goes on from the empty transcript, as for a session_id without
\* stored session; when the store cannot be reached while the process builds
\* its SessionManager, the request is answered 500 before any model call and
\* nothing is written.
C17_FailedReadStartsEmpty ==
  \A r \in Slots :
    LET q == req[r]
    IN  /\ q.read = "failed" =>
             /\ q.start = <<>>
             /\ q.before = 0
             /\ ~FailedAtStart(q)
             /\ (q.steps = 0 /\ q.pc = "loop") => q.messages = <<UserTurn(1, q.rid)>>
        /\ q.read = "connect" =>
             /\ FailedAtStart(q)
             /\ q.messages = <<>>
             /\ ~q.saved
             /\ store[q.sid].writer # q.rid
        /\ FailedAtStart(q) => q.read = "connect"

\* a request whose read failed although a session was stored ran to its end
\* on a transcript that holds nothing of the stored one
C17_Witness ==
  \E r \in Slots :
    /\ req[r].read = "failed"
    /\ req[r].pc = "ret"
    /\ req[r].steps >= 1
    /\ store[req[r].sid].present
    /\ store[req[r].sid].data # <<>>
    /\ \A i \in DOMAIN req[r].messages : req[r].messages[i].by = req[r].rid

\* C18: a stored session always has SESSION_EXPIRY minus the time since its
\* last successful write left to live (so every successful write gives it the
\* full 86400 s again, whatever was left), and a session whose last write is
\* SESSION_EXPIRY old is gone: reading it gives the empty transcript.
C18_WriteResetsLifetime ==
  \A s \in Sessions :
    /\ store[s].present =>
         /\ store[s].ttl = SESSION_EXPIRY - store[s].age
         /\ store[s].ttl > 0
         /\ store[s].age = 0 => store[s].ttl = 86400
    /\ store[s].age >= SESSION_EXPIRY =>
         (~store[s].present /\ GetMessages(store, s, TRUE) = <<>>)

\* a write that found half of the lifetime left
C18_Witness ==
  \E s \in Sessions :
    /\ store[s].present
    /\ store[s].prev = SESSION_EXPIRY \div 2
    /\ store[s].ttl = SESSION_EXPIRY
    /\ store[s].data # <<>>

\* the tokens of a text
HasToken(text, t) == \E i \in DOMAIN text : text[i] = t

Contains(text, part) ==
  \E i \in 0..(Len(text) - Len(part)) : SubSeq(text, i + 1, i + Len(part)) = part

\* every "IMAGE:" of the answer is the head of the marker of a collected path
MarkersOnly(answer, image_paths) ==
  \A i \in DOMAIN answer :
    answer[i] = "IMAGE:" =>
      (i < Len(answer) /\ \E j \in DOMAIN image_paths : image_paths[j] = <<answer[i + 1]>>)

C20_MissingFileDegrades ==
  LET image_paths == ExtractImagePathsFromResults(imgIn.results)
  IN  ( /\ imgOut # NoImgOut
        /\ image_paths # <<>>
        /\ Lookup(imgIn.fs, image_paths[1]).kind \in {"absent", "locked"} )
      => /\ ~imgOut.raised
         /\ imgOut.image_base64 = NoneB64
         /\ imgOut.image_mime = NoneMime
         /\ Contains(imgIn.answer, Marker(image_paths[1]))
              => Len(imgOut.answer) <= Len(imgIn.answer) - Len(Marker(image_paths[1]))
         /\ MarkersOnly(imgIn.answer, image_paths) => ~HasToken(imgOut.answer, "IMAGE:")

\* the file exists and cannot be read; the answer held its marker
C20_Witness ==
  /\ imgOut # NoImgOut
  /\ imgIn.results = <<Marker(<<"outputs/x.png">>)>>
  /\ imgIn.fs["outputs/x.png"].kind = "locked"
  /\ imgIn.answer = <<"outputs/y.jpg", "IMAGE:", "outputs/x.png">>
  /\ imgOut.answer = <<"outputs/y.jpg">>
  /\ imgOut.image_base64 = NoneB64

\* C21 (as stated): for a tool name outside the registry execute_tool answers
\* that the tool does not exist and invokes no tool, whatever the raw
\* arguments are.
C21_UnknownToolAlwaysReported ==
  (toolOut # NoOut /\ toolIn.name \notin Registry) =>
    /\ toolOut.msg = "no_tool"
    /\ ~toolOut.invoked

\* C21 (amended): for a tool name outside the registry execute_tool raises
\* nothing, invokes no tool and returns a result with the "error" key alone;
\* the error says that the tool does not exist when the raw arguments are
\* not a string or are a string that parses as JSON, and says that the
\* arguments failed to parse when they are a string that is not JSON (the
\* arguments are parsed before the name is looked up).
C21_UnknownToolInvokesNothing ==
  (toolOut # NoOut /\ toolIn.name \notin Registry) =>
    /\ ~toolOut.raised
    /\ ~toolOut.invoked
    /\ toolOut.keys = {"error"}
    /\ toolIn.args # "bad_json" => toolOut.msg = "no_tool"
    /\ toolIn.args = "bad_json" => toolOut.msg = "parse"

\* an unknown name with arguments that are not JSON, and one with arguments
\* that would not fit any tool
C21_Witness ==
  /\ toolOut # NoOut
  /\ toolIn.name = "no_such_tool"
  /\ \/ toolIn.args = "bad_json" /\ toolOut.msg = "parse"
     \/ toolIn.args = "json_scalar" /\ toolOut.msg = "no_tool"

\* C22: what the execution of a session's code gets (stdout and errors) is
\* what it would get if the code of that session alone had been executed:
\* the code of another session's run changes nothing of it.
C22_SessionsShareNoExecutorState ==
  execOut.session \in ExecSessions =>
    /\ execOut.results = execOut.own_results
    /\ execOut.errors = execOut.own_errors

\* C25: a delete request for a session_id without stored session is answered
\* 404, one for a stored session is answered 200 and removes the transcript
\* (the Session Store answering).
C25_DeleteAnswers404WhenAbsent ==
  (delOut.sid \in Sessions /\ delOut.fault = "none") =>
    /\ ~delOut.existed => delOut.status = 404
    /\ delOut.existed => delOut.status = 200

\* C24: when maybe_compress_messages compresses the first k of n entries, it
\* returns exactly 2 + (n - k) entries: the synthetic user turn with the
\* snapshot, the synthetic assistant turn that acknowledges it (no tool
\* call), then the entries k..n-1 as they were and in their order.
C24_TwoSyntheticThenKept ==
  (cmpRet.done /\ cmpRet.calls = 1) =>
    LET m == cmpArgs.messages
        n == Len(m)
        k == Len(cmpRet.sent)
        ret == cmpRet.ret
    IN  /\ 0 < k /\ k < n
        /\ cmpRet.sent = [i \in 1..k |-> m[i]]
        /\ Len(ret) = 2 + (n - k)
        /\ ret[1].role = "user" /\ ret[1].syn
        /\ ret[2].role = "assistant" /\ ret[2].syn /\ ret[2].tcs = <<>>
        /\ \A i \in k..(n - 1) : ret[2 + (i - k) + 1] = m[i + 1]

\* one entry is compressed: the result is one entry longer than the argument
C24_Witness ==
  /\ cmpRet.done
  /\ cmpRet.calls = 1
  /\ Len(cmpRet.sent) = 1
  /\ Len(cmpArgs.messages) = 2
  /\ Len(cmpRet.ret) = 3
  /\ cmpRet.ret[3] = cmpArgs.messages[2]

\* C26: the steps_taken of a successful response is the number of steps the
\* run took: at least 1, and as many as the run made iterations.
C26_StepsTakenCountsSteps ==
  \A r \in Slots :
    (req[r].pc = "done" /\ req[r].status = 200) =>
      /\ req[r].steps_taken >= 1
      /\ req[r].steps_taken = req[r].steps

\* C27: the results of a successful response are exactly the tool results
\* appended during the request, in their order: none of an earlier request,
\* none of this request missing.
C27_ResultsAreThisRequests ==
  \A r \in Slots :
    (req[r].pc = "done" /\ req[r].status = 200) =>
      req[r].results = req[r].dispatched

\* C29: after a request whose session read failed (a session was stored) and
\* whose final write succeeded, the store holds the transcript of that run
\* alone: every stored entry was appended by this request, and a read gives
\* nothing of the history that was stored before.
C29_FailedReadThenWriteDropsHistory ==
  \A r \in Slots :
    (req[r].pc = "done" /\ req[r].read = "failed" /\ req[r].saved) =>
      LET k == store[req[r].sid]
          got == GetMessages(store, req[r].sid, TRUE)
      IN  /\ k.present
          /\ k.writer = req[r].rid
          /\ got = req[r].messages
          /\ got # <<>>
          /\ \A i \in DOMAIN got : got[i].by = req[r].rid

\* the earlier request's transcript had been stored; it is gone
C29_Witness ==
  \E r, r2 \in Slots :
    /\ r # r2
    /\ req[r2].pc = "done" /\ req[r2].saved /\ req[r2].messages # <<>>
    /\ req[r2].rid < req[r].rid
    /\ req[r].pc = "done" /\ req[r].read = "failed" /\ req[r].saved
    /\ store[req[r].sid].data = req[r].messages
    /\ \A i \in DOMAIN store[req[r].sid].data :
         store[req[r].sid].data[i].by # req[r2].rid

\* C30: a request starts its loop with usage 0: its first iteration makes no
\* summarisation call and sends the loaded transcript and the query as they
\* are, however long the loaded transcript; later iterations decide on the
\* total_tokens that the previous model call reported, which replaces the
\* usage value (it is never a sum), so the summarisation calls of a run are
\* at most as many as its completed iterations.
C30_UsageStartsAtZero ==
  \A r \in Slots :
    LET q == req[r]
    IN  /\ q.usage \in UsageValues \cup {0}
        /\ q.cmpUsage \in UsageValues \cup {0}
        /\ q.steps = 0 => q.usage = 0
        /\ q.sumCalls <= q.steps
        /\ (q.mainCalls = 1 /\ (q.steps = 0 \/ q.status # 500)) =>
             /\ q.cmpUsage = 0
             /\ q.sumCalls = 0
             /\ q.cmpOut = q.cmpIn
             /\ q.cmpIn = CleanMessagesForLlm(Append(q.start, UserTurn(1, q.rid)))
        /\ (q.steps >= 1 /\ q.pc \in {"loop", "ret"}) => q.usage \in UsageValues

\* a request that loaded a stored transcript, made no summarisation call in
\* its first iteration and one in its second, on the 42001 tokens reported
C30_Witness ==
  \E r \in Slots :
    /\ req[r].start # <<>>
    /\ req[r].steps = 2
    /\ req[r].sumCalls = 1
    /\ req[r].cmpUsage = 42001

\* C23: a tool call that fails softly does not end the run: nothing is
\* answered 500, the loop goes on when steps remain, and the model call of
\* the next iteration is sent the failed call's tool result.
C23_SoftFailureFedBack ==
  \A r \in Slots :
    \A id \in req[r].failed :
      /\ req[r].status # 500
      /\ (id[2] = req[r].steps /\ req[r].steps < req[r].max_steps) => req[r].pc = "loop"
      /\ req[r].mainCalls = id[2] + 1 =>
           \E i \in DOMAIN req[r].sentMain :
             /\ req[r].sentMain[i].role = "tool"
             /\ req[r].sentMain[i].cid = id
             /\ req[r].sentMain[i].res # "ok"

\* the text-bearing assistant turns that a request itself appended
OwnTextTurns(q) ==
  {i \in TextTurns(q.messages) : q.messages[i].by = q.rid /\ ~q.messages[i].syn}

\* C28: when the transcript of a successful run holds no text-bearing
\* assistant turn appended by the request, the answer is the content of the
\* latest text-bearing assistant turn of the whole transcript (a turn of an
\* earlier request or the synthetic acknowledgement), and the fixed text
\* only when the transcript holds no text-bearing assistant turn at all.
C28_AnswerFallsBackToLatestText ==
  \A r \in Slots :
    LET q == req[r]
        m == q.messages
    IN  (q.pc = "done" /\ q.status = 200 /\ OwnTextTurns(q) = {}) =>
          /\ TextTurns(m) # {} =>
               /\ q.answer = [fixed |-> FALSE, at |-> Max(TextTurns(m))]
               /\ m[q.answer.at].syn \/ m[q.answer.at].by < q.rid
          /\ TextTurns(m) = {} => q.answer = FixedAnswer

\* a run that was compressed and ended on a tool-calling turn without text
\* answers with the synthetic acknowledgement
C28_Witness ==
  \E r \in Slots :
    /\ req[r].pc = "done" /\ req[r].status = 200
    /\ OwnTextTurns(req[r]) = {}
    /\ ~req[r].answer.fixed
    /\ req[r].messages[req[r].answer.at].syn
    /\ req[r].messages[Len(req[r].messages)].role = "tool"

====
